---- MODULE Spec2Model ----
(***************************************************************************)
(* A model of one run of WorkflowEngine (src/core/Engine.ts): the          *)
(* condition check, the timeout race, the retry loop, the classification   *)
(* of errors and the order in which lifecycle events are emitted.          *)
(*                                                                         *)
(* The inputs are drawn where the engine reads them: the length of         *)
(* workflow.steps in Init, a step when the for loop of run takes it, the   *)
(* outcome of a condition or a body when it settles.  Every await of the   *)
(* engine is an action boundary.  The history (trace) keeps what was       *)
(* emitted and called.                                                     *)
(***************************************************************************)
EXTENDS Integers, Sequences, FiniteSets, TLC

\* ------------------------------------------------------------------ bounds
MaxSteps == 2
MaxRetry == 1

\* ------------------------------------------------- the workflows of a run
workflowName == "wf"
StepIds == <<"s1", "s2", "s3", "s4">>
TimeoutMs == 100

\* WorkflowEventType
EventTypes == {"workflow:start", "workflow:success", "workflow:fail",
               "step:start", "step:success", "step:fail", "step:skip"}
StepEventTypes == {"step:start", "step:success", "step:fail", "step:skip"}

\* The optional fields of the Step interface: a field that is not set is
\* absent from the record.
ConditionOpts == {"none", "fn"}
RetryValues == (0 - 1)..MaxRetry
TimeoutOpts == {"unset", "zero", "ms"}

MkStep(id, c, r, k, t) ==
    LET base == [id |-> id, run |-> "fn"]
        withC == IF c = "fn" THEN base @@ [condition |-> "fn"] ELSE base
        withR == IF r = "n" THEN withC @@ [retry |-> k] ELSE withC
    IN  CASE t = "unset" -> withR
          [] t = "zero"  -> withR @@ [timeout |-> 0]
          [] t = "ms"    -> withR @@ [timeout |-> TimeoutMs]

Step(id) ==
    { MkStep(id, c, "unset", 0, t) : c \in ConditionOpts, t \in TimeoutOpts }
    \cup
    { MkStep(id, c, "n", k, t) : c \in ConditionOpts, k \in RetryValues,
                                 t \in TimeoutOpts }

\* new Workflow(name, steps): a non-empty list of steps with distinct ids;
\* the step at position i is one of Step(StepIds[i]).
WorkflowLengths == 1..MaxSteps

\* ----------------------------------------------------------------- errors
\* A thrown value.  cls is the class of the object ("string" and
\* "undefined" are values that are no Error); oid tells the values that
\* were thrown or made apart (0: none); cause is the oid of the wrapped
\* error.
NoId == "-"
Thrown(cls, oid, stepId, wf, timeout, message, cause) ==
    [cls |-> cls, oid |-> oid, stepId |-> stepId, workflowName |-> wf,
     timeout |-> timeout, message |-> message, cause |-> cause]

undefined == Thrown("undefined", 0, NoId, NoId, 0, <<"undefined">>, 0)

isError(e) == e.cls \notin {"string", "undefined"}

\* new StepError(stepId, workflowName, message, cause)
StepError(oid, stepId, wf, message, cause) ==
    Thrown("StepError", oid, stepId, wf, 0, message, cause)

\* new StepExecutionError(stepId, workflowName, message, cause)
StepExecutionError(oid, stepId, wf, message, cause) ==
    Thrown("StepExecutionError", oid, stepId, wf, 0, message, cause)

\* new TimeoutError(stepId, workflowName, timeout)
TimeoutError(oid, stepId, wf, timeout) ==
    Thrown("TimeoutError", oid, stepId, wf, timeout,
           <<"Step", stepId, "timed out after", timeout, "ms">>, 0)

\* String(error), and error.message of an Error
String(e) == e.message

\* new Error(String(error)) for every value
asErrorAlways(e, oid) == Thrown("Error", oid, NoId, NoId, 0, String(e), 0)

\* error instanceof Error ? error : new Error(String(error))
asError(e, oid) ==
    IF isError(e) THEN e
    ELSE Thrown("Error", oid, NoId, NoId, 0, String(e), 0)

\* What a condition or a body of the host application can throw: a plain
\* Error, a value that is no Error, and typed errors made elsewhere (the
\* errors of a workflow that the body ran itself).
UserThrows(oid) ==
    { Thrown("Error", oid, NoId, NoId, 0, <<"boom">>, 0),
      Thrown("string", oid, NoId, NoId, 0, <<"oops">>, 0),
      StepError(oid, "inner", "sub", <<"inner failed">>, 0),
      StepExecutionError(oid, "inner", "sub", <<"inner failed">>, 0),
      TimeoutError(oid, "inner", "sub", 7) }

VARIABLES
    numSteps,   \* workflow.steps.length of the workflow given to run
    step,       \* the loop variable of run: the step being executed
    pc,         \* the await the run is suspended at
    index,      \* position of the for loop of run in workflow.steps
    attempt,    \* the loop variable of executeStepWithRetry
    lastError,  \* lastError of executeStepWithRetry
    error,      \* the value caught by the catch block of executeStep
    runError,   \* the value caught by the catch block of run
    timers,     \* the timers of executeWithTimeout that are pending
    bodies,     \* step bodies that were invoked and have not settled
    nextOid,    \* identity of the next object created
    trace,      \* history: events emitted, functions invoked, waits
    result,     \* the settlement of the promise returned by run
    listeners,  \* EventEmitter.listeners: event type -> listeners, in the
                \* order of insertion of the Set
    pending,    \* listener invocations of the emission that is awaited
    context,    \* the context of run (line 17), 0 before run is called
    store,      \* the plain objects of the heap: own property -> value
    contexts,   \* the WorkflowContext objects: their fields data and env
    initialData,\* the argument initialData of run: an object, 0 when omitted
    processEnv, \* process.env
    written,    \* per context, what set stored and is not deleted since
    args,       \* the arguments name and steps given to new Workflow
    workflow,   \* the Workflow that was made of them, or what was thrown
    suspended,  \* the locals of the other calls of run that are in flight
    current     \* the call of run whose locals the variables above hold

\* What the engine does not touch once a context exists
\* The calls of run that another call of run overtook
scheduler == <<suspended, current>>

memory ==
    <<store, contexts, initialData, processEnv, written, args, workflow,
      scheduler>>

vars == <<numSteps, step, pc, index, attempt, lastError, error, runError,
          timers, bodies, nextOid, trace, result, listeners, pending,
          context, memory>>

\* ------------------------------------------------------------------------
\* new Workflow(name, steps) (src/core/Workflow.ts)
\* ------------------------------------------------------------------------
\* The first n steps of a workflow, as the constructor looks at them
stepsOf(n) == [i \in 1..n |-> [id |-> StepIds[i], run |-> "fn"]]

threw(message) == [threw |-> "Error", message |-> message]
isWorkflow(w) == "steps" \in DOMAIN w

\* the loop of lines 17-31 without the test of lines 22-24
RECURSIVE checkStepsNoDuplicates(_, _, _)
checkStepsNoDuplicates(steps, i, stepIds) ==
    IF i > Len(steps) THEN "ok"
    ELSE IF steps[i].id = ""
      THEN "Each step must have a non-empty string id"
    ELSE IF steps[i].run # "fn"
      THEN "Step must have a run function"
    ELSE checkStepsNoDuplicates(steps, i + 1, stepIds \cup {steps[i].id})

\* The loop of the constructor, lines 16-31: "ok", or the message of the
\* error of the first step that is refused
RECURSIVE checkSteps(_, _, _)
checkSteps(steps, i, stepIds) ==
    IF i > Len(steps) THEN "ok"
    ELSE IF steps[i].id = ""
      THEN "Each step must have a non-empty string id"
    ELSE IF steps[i].id \in stepIds
      THEN "Duplicate step id"
    ELSE IF steps[i].run # "fn"
      THEN "Step must have a run function"
    ELSE checkSteps(steps, i + 1, stepIds \cup {steps[i].id})

\* new Workflow(name, steps), lines 7-35: the workflow, or what is thrown
Workflow(name, steps) ==
    IF name = "" THEN threw("Workflow name must be a non-empty string")
    ELSE IF Len(steps) = 0 THEN threw("Workflow must have at least one step")
    ELSE IF checkSteps(steps, 1, {}) # "ok"
      THEN threw(checkSteps(steps, 1, {}))
    ELSE [name |-> name, steps |-> steps]

\* The workflow given to run was made of a name and numSteps steps.
Constructed ==
    /\ args = [name |-> workflowName, steps |-> stepsOf(numSteps)]
    /\ workflow = Workflow(args.name, args.steps)

\* ------------------------------------------------------------------------
\* WorkflowContext (src/core/Context.ts) and the objects it keeps
\* ------------------------------------------------------------------------
\* A plain object is the function of its own properties.  A value is a
\* number, a reference to the object store[n], a function or undefined.
EmptyObject == <<>>
number(n) == [type |-> "number", n |-> n]
reference(n) == [type |-> "object", ref |-> n]
absent == [type |-> "undefined"]

\* The keys that conditions and bodies read, and those they set
Keys == {"k", "toString", ""}
SetKeys == {"k", ""}
Values == {number(1), number(2)}
ProcessEnv == ("PATH" :> "/bin")

\* A plain object inherits the properties of Object.prototype.
ObjectPrototype == ("toString" :> [type |-> "function"])

\* The internal slot of an object whose prototype was replaced; an object
\* without it has the prototype Object.prototype, which is reference(0).
Prototype == "[[Prototype]]"
PrototypeKey == "__proto__"

own(o) == DOMAIN o \ {Prototype}

\* o[key] for an object whose prototype is Object.prototype
lookupPlain(o, key) ==
    IF key \in own(o) THEN o[key]
    ELSE IF key = PrototypeKey THEN reference(0)
    ELSE IF key \in DOMAIN ObjectPrototype THEN ObjectPrototype[key]
    ELSE absent

\* o[key]: an own property, the prototype for the accessor __proto__ of
\* Object.prototype, or what the prototype has
lookup(o, key) ==
    IF key \in own(o) THEN o[key]
    ELSE IF Prototype \in DOMAIN o
      THEN IF key = PrototypeKey THEN o[Prototype]
           ELSE lookupPlain(store[o[Prototype].ref], key)
    ELSE lookupPlain(o, key)

\* key in o
hasProperty(o, key) ==
    \/ key \in own(o) \cup DOMAIN ObjectPrototype
    \/ key = PrototypeKey
    \/ Prototype \in DOMAIN o /\ key \in own(store[o[Prototype].ref])

\* delete o[key]
without(o, key) == [x \in DOMAIN o \ {key} |-> o[x]]

\* { ...o }: the own properties of o, none for undefined
spread(ref) ==
    IF ref = 0 THEN EmptyObject
    ELSE IF Prototype \in DOMAIN store[ref]
      THEN without(store[ref], Prototype)
    ELSE store[ref]

\* o[key] = value: the setter __proto__ of Object.prototype replaces the
\* prototype by an object and ignores any other value
assigned(o, key, value) ==
    IF key = PrototypeKey
      THEN IF value.type = "object" THEN (Prototype :> value) @@ o ELSE o
      ELSE (key :> value) @@ o

\* Object.keys(o).forEach(key => delete o[key])
cleared(o) ==
    IF Prototype \in DOMAIN o THEN (Prototype :> o[Prototype])
    ELSE EmptyObject

\* this.data = initialData, in place of the copy of line 6
WorkflowContextAliased(initial, env) ==
    /\ store' = store \o <<spread(initial), processEnv @@ spread(env)>>
    /\ contexts' = Append(contexts,
                          [data |-> IF initial = 0 THEN Len(store) + 1
                                    ELSE initial,
                           env |-> Len(store) + 2])

\* new WorkflowContext(initialData, env), lines 5-8: two new objects
WorkflowContext(initial, env) ==
    /\ store' = store \o <<spread(initial), processEnv @@ spread(env)>>
    /\ contexts' = Append(contexts, [data |-> Len(store) + 1,
                                     env |-> Len(store) + 2])

\* What the steps of a run find stored before any of them wrote
given(initial) ==
    [key \in DOMAIN spread(initial) |->
        [value |-> spread(initial)[key], by |-> "initialData"]]

\* No call of run was made yet and no emission is awaited.
Fresh ==
    /\ index = 1
    /\ attempt = 0
    /\ lastError = undefined
    /\ error = undefined
    /\ runError = undefined
    /\ timers = {}
    /\ bodies = {}
    /\ nextOid = 1
    /\ trace = <<>>
    /\ result = [state |-> "pending"]
    /\ pending = {}
    /\ context = 0
    /\ contexts = <<>>
    /\ written = <<>>
    /\ processEnv = ProcessEnv
    /\ suspended = <<>>
    /\ current = 1

Idle == pc = "idle" /\ Fresh

\* A workflow is run, without initialData, by an engine that has no
\* listeners.
Init ==
    /\ numSteps \in WorkflowLengths
    /\ step \in Step(StepIds[1])
    /\ Constructed
    /\ Idle
    /\ listeners = <<>>
    /\ store = <<>>
    /\ initialData = 0

\* this.listeners.get(type), as the array Array.from makes of it
registered(type) ==
    IF type \in DOMAIN listeners THEN listeners[type] ELSE <<>>

\* eventEmitter.emit(event), lines 24-32: every listener of the event's
\* type is called, in the order of the Set; the history gets the event and
\* the calls.  The await of line 33 is the guard at(label) of what follows.
emit(event) ==
    LET q == registered(event.type)
        p == Len(trace) + 1
    IN  /\ trace' = Append(trace, event) \o
                    [k \in 1..Len(q) |->
                        [type |-> "listener:call", listener |-> q[k],
                         kind |-> event.type, at |-> p, k |-> k]]
        /\ pending' = { [listener |-> q[k], kind |-> event.type, at |-> p,
                         k |-> k] : k \in 1..Len(q) }

\* the engine goes on without the await of Promise.all
atNoAwait(label) == pc = label

\* The run is suspended at label and the emission it awaited, if any, has
\* settled: await this.eventEmitter.emit(...), await Promise.all(promises).
at(label) == pc = label /\ pending = {}

\* One entry of the history for a call of a user function or a wait.
call(kind, s, n) == [type |-> kind, stepId |-> s.id, attempt |-> n]

\* step.retry ?? 1
maxRetriesDefaultOne(s) == IF "retry" \in DOMAIN s THEN s.retry ELSE 1

\* step.retry ?? 0
maxRetries(s) == IF "retry" \in DOMAIN s THEN s.retry ELSE 0

\* no timer is ever set: executeStepWithRetry always takes line 101
hasTimeoutNever(s) == FALSE

\* if (step.timeout): a timeout that is unset or 0 is no timeout
hasTimeout(s) == "timeout" \in DOMAIN s /\ s.timeout # 0

\* 1000 / (attempt + 1): a delay that shrinks
backoffDelayShrinking(n) == 1000 \div (n + 1)

\* The delay of the wait between two attempts (line 115).
backoffDelay(n) == 1000 * (n + 1)

\* the retry loop without the test of lines 107-109
isTimeoutErrorNever(e) == FALSE

\* error instanceof TimeoutError: the attempt's failure ends the retry loop
isTimeoutError(e) == e.cls = "TimeoutError"

\* error instanceof StepError || error instanceof TimeoutError (line 84)
isTyped(e) == e.cls = "StepError" \/ e.cls = "TimeoutError"

\* lines 84-88 with the first two arguments of StepError exchanged
classifySwapped(e, s, wf, oid) ==
    IF isTyped(e) THEN e
    ELSE StepError(oid, wf, s.id, IF isError(e) THEN e.message ELSE String(e),
                   IF isError(e) THEN e.oid ELSE 0)

\* The value executeStep throws for the failure it caught (lines 84-88);
\* oid is the identity a new wrapper gets.
classify(e, s, wf, oid) ==
    IF isTyped(e) THEN e
    ELSE StepError(oid, s.id, wf, IF isError(e) THEN e.message ELSE String(e),
                   IF isError(e) THEN e.oid ELSE 0)

\* The number of objects asError creates
created(e) == IF isError(e) THEN 0 ELSE 1

\* a return in place of the end of the loop body
nextStepReturns ==
    /\ index' = index + 1
    /\ pc' = "workflowSuccess"
    /\ UNCHANGED step

\* executeStep returns normally: the for loop of run takes the next step,
\* or ends (lines 26-28).
nextStep ==
    /\ index' = index + 1
    /\ IF index < numSteps
         THEN /\ step' \in Step(StepIds[index + 1])
              /\ pc' = "executeStep"
         ELSE /\ pc' = "workflowSuccess"
              /\ UNCHANGED step

\* run, lines 16-24
Run ==
    /\ at("idle")
    /\ WorkflowContext(initialData, 0)
    /\ context' = Len(contexts) + 1
    /\ written' = Append(written, given(initialData))
    /\ emit([type |-> "workflow:start", workflowName |-> workflowName])
    /\ pc' = "executeStep"
    /\ UNCHANGED <<numSteps, step, index, attempt, lastError, error,
                   runError, timers, bodies, nextOid, result, listeners,
                   initialData, processEnv, args, workflow, scheduler>>

\* executeStep, line 48: a step without a condition is run; the condition
\* of a step that has one is called.
CheckCondition ==
    /\ at("executeStep")
    /\ IF "condition" \in DOMAIN step
         THEN /\ trace' = Append(trace, call("call:condition", step, 0))
              /\ pc' = "awaitCondition"
         ELSE /\ pc' = "stepStart"
              /\ UNCHANGED trace
    /\ UNCHANGED <<numSteps, step, index, attempt, lastError, error, runError,
                   timers, bodies, nextOid, result, listeners, pending,
                   context, memory>>

\* executeStep, lines 48-50: the condition settles with a boolean
ConditionSettles ==
    /\ at("awaitCondition")
    /\ \E shouldRun \in BOOLEAN :
         /\ pc' = IF shouldRun THEN "stepStart" ELSE "stepSkip"
         /\ trace' = Append(trace, [type |-> "resolve:condition",
                                    stepId |-> step.id, value |-> shouldRun])
    /\ UNCHANGED <<numSteps, step, index, attempt, lastError, error, runError,
                   timers, bodies, nextOid, result, listeners, pending,
                   context, memory>>

\* executeStep, lines 48 and 75: the condition throws or rejects
ConditionThrows ==
    /\ at("awaitCondition")
    /\ \E e \in UserThrows(nextOid) :
         /\ error' = e
         /\ trace' = Append(trace, [type |-> "reject:condition",
                                    stepId |-> step.id, oid |-> e.oid])
    /\ nextOid' = nextOid + 1
    /\ pc' = "stepCatch"
    /\ UNCHANGED <<numSteps, step, index, attempt, lastError, runError,
                   timers, bodies, result, listeners, pending, context,
                   memory>>

\* lines 50-58 without the return of line 57
EmitStepSkipNoReturn ==
    /\ at("stepSkip")
    /\ emit([type |-> "step:skip", workflowName |-> workflowName,
             stepId |-> step.id])
    /\ pc' = "stepStart"
    /\ UNCHANGED <<numSteps, step, index, attempt, lastError, error, runError,
                   timers, bodies, nextOid, result, listeners, context,
                   memory>>

\* executeStep, lines 50-58
EmitStepSkip ==
    /\ at("stepSkip")
    /\ emit([type |-> "step:skip", workflowName |-> workflowName,
             stepId |-> step.id])
    /\ nextStep
    /\ UNCHANGED <<numSteps, attempt, lastError, error, runError, timers,
                   bodies, nextOid, result, listeners, context, memory>>

\* executeStep, lines 60-67, and the entry of executeStepWithRetry,
\* lines 93-96
EmitStepStart ==
    /\ at("stepStart")
    /\ emit([type |-> "step:start", workflowName |-> workflowName,
             stepId |-> step.id])
    /\ attempt' = 0
    /\ lastError' = undefined
    /\ pc' = "attempt"
    /\ UNCHANGED <<numSteps, step, index, error, runError, timers, bodies,
                   nextOid, result, listeners, context, memory>>

\* step.run(context) of an attempt, and the timer that is set for it
invocation(s, n) == [stepId |-> s.id, attempt |-> n, context |-> context]

\* executeStepWithRetry, lines 96-102 and 119, with the first half of
\* executeWithTimeout, lines 123-128: the loop test, then the body is
\* called, with a timer when the step has a timeout.
Attempt ==
    /\ at("attempt")
    /\ IF attempt <= maxRetries(step)
         THEN /\ trace' = Append(trace, call("call:run", step, attempt))
              /\ bodies' = bodies \cup {invocation(step, attempt)}
              /\ timers' = IF hasTimeout(step)
                             THEN timers \cup {invocation(step, attempt)}
                             ELSE timers
              /\ pc' = "awaitRun"
              /\ UNCHANGED error
         ELSE /\ error' = lastError
              /\ pc' = "stepCatch"
              /\ UNCHANGED <<trace, bodies, timers>>
    /\ UNCHANGED <<numSteps, step, index, attempt, lastError, runError,
                   nextOid, result, listeners, pending, context, memory>>

\* The body the retry loop is waiting for.
awaited(b) ==
    /\ pc = "awaitRun"
    /\ b.stepId = step.id
    /\ b.attempt = attempt
    /\ b.context = context

\* The body a call of run is waiting for whose continuation is not the
\* one that runs
awaitedElsewhere(b) ==
    \E k \in DOMAIN suspended :
        /\ suspended[k].pc = "awaitRun"
        /\ b.stepId = suspended[k].step.id
        /\ b.attempt = suspended[k].attempt
        /\ b.context = suspended[k].context

\* line 105 as lastError ??= error: the first failure is kept
catchAttemptKeepsFirst(e, entry) ==
    LET kept == IF lastError = undefined THEN e ELSE lastError
    IN  /\ lastError' = kept
        /\ IF isTimeoutError(e) \/ attempt = maxRetries(step)
             THEN /\ error' = kept
                  /\ pc' = "stepCatch"
                  /\ trace' = Append(trace, entry)
             ELSE /\ pc' = "backoff"
                  /\ trace' = Append(Append(trace, entry),
                                     [type |-> "setTimeout",
                                      stepId |-> step.id,
                                      attempt |-> attempt,
                                      ms |-> backoffDelay(attempt)])
                  /\ UNCHANGED error

\* The catch block of the retry loop, lines 104-116, for the failure e of
\* the attempt; entry is what the history gets for it, before the wait of
\* line 115.
catchAttempt(e, entry) ==
    /\ lastError' = e
    /\ IF isTimeoutError(e) \/ attempt = maxRetries(step)
         THEN /\ error' = e
              /\ pc' = "stepCatch"
              /\ trace' = Append(trace, entry)
         ELSE /\ pc' = "backoff"
              /\ trace' = Append(Append(trace, entry),
                                 [type |-> "setTimeout", stepId |-> step.id,
                                  attempt |-> attempt,
                                  ms |-> backoffDelay(attempt)])
              /\ UNCHANGED error

\* lines 129-132 without the clearTimeout of line 130
BodyResolvesNoClear ==
    /\ \E b \in bodies :
         /\ awaited(b)
         /\ bodies' = bodies \ {b}
         /\ trace' = Append(trace, [type |-> "resolve:run", stepId |-> b.stepId,
                                    attempt |-> b.attempt])
    /\ lastError' = undefined
    /\ pc' = "stepSuccess"
    /\ UNCHANGED <<numSteps, step, index, attempt, error, runError, timers,
                   nextOid, result, listeners, pending, context, memory>>

\* The body of the attempt resolves: lines 101-103, 129-132.  The return of
\* line 103 ends the life of lastError.
BodyResolves ==
    /\ \E b \in bodies :
         /\ awaited(b)
         /\ bodies' = bodies \ {b}
         /\ timers' = timers \ {b}
         /\ trace' = Append(trace, [type |-> "resolve:run", stepId |-> b.stepId,
                                    attempt |-> b.attempt])
    /\ lastError' = undefined
    /\ pc' = "stepSuccess"
    /\ UNCHANGED <<numSteps, step, index, attempt, error, runError, nextOid,
                   result, listeners, pending, context, memory>>

\* The body of the attempt throws or rejects: lines 101, 104-116, 133-136.
BodyRejects ==
    /\ \E b \in bodies :
         /\ awaited(b)
         /\ bodies' = bodies \ {b}
         /\ timers' = timers \ {b}
         /\ \E e \in UserThrows(nextOid) :
              catchAttempt(e, [type |-> "reject:run", stepId |-> b.stepId,
                               attempt |-> b.attempt, oid |-> e.oid])
    /\ nextOid' = nextOid + 1
    /\ UNCHANGED <<numSteps, step, index, attempt, runError, result,
                   listeners, pending, context, memory>>

\* A timer of executeWithTimeout fires, lines 124-126: the attempt that is
\* waited for fails with a TimeoutError (the body goes on); rejecting a
\* promise that is settled already does nothing.
TimerFires ==
    /\ \E t \in timers :
         /\ timers' = timers \ {t}
         /\ IF awaited(t)
              THEN /\ catchAttempt(
                        TimeoutError(nextOid, step.id, workflowName,
                                     step.timeout),
                        [type |-> "timer:fire", stepId |-> t.stepId,
                         attempt |-> t.attempt, oid |-> nextOid])
                   /\ nextOid' = nextOid + 1
              ELSE /\ ~awaitedElsewhere(t)
                   /\ UNCHANGED <<pc, lastError, error, nextOid, trace>>
    /\ UNCHANGED <<numSteps, step, index, attempt, runError, bodies, result,
                   listeners, pending, context, memory>>

\* lines 133-136 for a promise that could be rejected twice: the retry
\* loop takes the late settlement for the failure of an attempt
AbandonedBodySettlesHeard ==
    /\ \E b \in bodies :
         /\ ~awaited(b)
         /\ ~awaitedElsewhere(b)
         /\ bodies' = bodies \ {b}
         /\ timers' = timers \ {b}
         /\ \E o \in {"resolve:run", "reject:run"} :
              trace' = Append(trace, [type |-> o, stepId |-> b.stepId,
                                      attempt |-> b.attempt, abandoned |-> TRUE])
    /\ pc' = IF pc = "done" THEN pc ELSE "attempt"
    /\ UNCHANGED <<numSteps, step, index, attempt, lastError, error,
                   runError, nextOid, result, listeners, pending, context,
                   memory>>

\* A body that the engine no longer waits for settles: the promise of
\* executeWithTimeout is settled already, lines 129-136 only clear a timer.
AbandonedBodySettles ==
    /\ \E b \in bodies :
         /\ ~awaited(b)
         /\ ~awaitedElsewhere(b)
         /\ bodies' = bodies \ {b}
         /\ timers' = timers \ {b}
         /\ \E o \in {"resolve:run", "reject:run"} :
              trace' = Append(trace, [type |-> o, stepId |-> b.stepId,
                                      attempt |-> b.attempt, abandoned |-> TRUE])
    /\ UNCHANGED <<numSteps, step, pc, index, attempt, lastError, error,
                   runError, nextOid, result, listeners, pending, context,
                   memory>>

\* the retry goes through line 48 again
BackoffReevaluates ==
    /\ at("backoff")
    /\ attempt' = attempt + 1
    /\ pc' = "executeStep"
    /\ UNCHANGED <<numSteps, step, index, lastError, error, runError, timers,
                   bodies, nextOid, trace, result, listeners, pending,
                   context, memory>>

\* the retry goes through line 60 again
BackoffRestarts ==
    /\ at("backoff")
    /\ attempt' = attempt + 1
    /\ pc' = "stepStart"
    /\ UNCHANGED <<numSteps, step, index, lastError, error, runError, timers,
                   bodies, nextOid, trace, result, listeners, pending,
                   context, memory>>

\* The wait between two attempts ends: line 115, then attempt++ of line 96.
Backoff ==
    /\ at("backoff")
    /\ attempt' = attempt + 1
    /\ pc' = "attempt"
    /\ UNCHANGED <<numSteps, step, index, lastError, error, runError, timers,
                   bodies, nextOid, trace, result, listeners, pending,
                   context, memory>>

\* executeStep, lines 69-74
EmitStepSuccess ==
    /\ at("stepSuccess")
    /\ emit([type |-> "step:success", workflowName |-> workflowName,
             stepId |-> step.id])
    /\ nextStep
    /\ UNCHANGED <<numSteps, attempt, lastError, error, runError, timers,
                   bodies, nextOid, result, listeners, context, memory>>

\* lines 84-88 without the emit of lines 76-82
EmitStepFailNoEvent ==
    /\ at("stepCatch")
    /\ runError' = classify(error, step, workflowName, nextOid)
    /\ nextOid' = nextOid + (IF isTyped(error) THEN 0 ELSE 1)
    /\ pc' = "runCatch"
    /\ UNCHANGED <<numSteps, step, index, attempt, lastError, error, timers,
                   bodies, trace, result, listeners, pending, context,
                   memory>>

\* lines 75-82 without the throws of lines 84-88
EmitStepFailSwallowed ==
    /\ at("stepCatch")
    /\ emit([type |-> "step:fail", workflowName |-> workflowName,
             stepId |-> step.id, error |-> asError(error, nextOid)])
    /\ nextOid' = nextOid + created(error)
    /\ nextStep
    /\ UNCHANGED <<numSteps, attempt, lastError, error, runError, timers,
                   bodies, result, listeners, context, memory>>

\* executeStep, lines 75-89: the event, then the error is thrown to run
EmitStepFail ==
    /\ at("stepCatch")
    /\ emit([type |-> "step:fail", workflowName |-> workflowName,
             stepId |-> step.id, error |-> asError(error, nextOid)])
    /\ runError' = classify(error, step, workflowName,
                            nextOid + created(error))
    /\ nextOid' = nextOid + created(error) + (IF isTyped(error) THEN 0 ELSE 1)
    /\ pc' = "runCatch"
    /\ UNCHANGED <<numSteps, step, index, attempt, lastError, error, timers,
                   bodies, result, listeners, context, memory>>

\* run, lines 30-34
EmitWorkflowSuccess ==
    /\ at("workflowSuccess")
    /\ emit([type |-> "workflow:success", workflowName |-> workflowName])
    /\ pc' = "return"
    /\ UNCHANGED <<numSteps, step, index, attempt, lastError, error, runError,
                   timers, bodies, nextOid, result, listeners, context,
                   memory>>

\* run, line 44: the promise of run resolves
Return ==
    /\ at("return")
    /\ result' = [state |-> "resolved"]
    /\ pc' = "done"
    /\ UNCHANGED <<numSteps, step, index, attempt, lastError, error, runError,
                   timers, bodies, nextOid, trace, listeners, pending,
                   context, memory>>

\* run, lines 35-41
EmitWorkflowFail ==
    /\ at("runCatch")
    /\ emit([type |-> "workflow:fail", workflowName |-> workflowName,
             error |-> asError(runError, nextOid)])
    /\ nextOid' = nextOid + created(runError)
    /\ pc' = "throw"
    /\ UNCHANGED <<numSteps, step, index, attempt, lastError, error, runError,
                   timers, bodies, result, listeners, context, memory>>

\* run, line 42: the promise of run rejects with the error it caught
Throw ==
    /\ at("throw")
    /\ result' = [state |-> "rejected", error |-> runError]
    /\ pc' = "done"
    /\ UNCHANGED <<numSteps, step, index, attempt, lastError, error, runError,
                   timers, bodies, nextOid, trace, listeners, pending,
                   context, memory>>

Next ==
    \/ Run
    \/ CheckCondition
    \/ ConditionSettles
    \/ ConditionThrows
    \/ EmitStepSkip
    \/ EmitStepStart
    \/ Attempt
    \/ BodyResolves
    \/ BodyRejects
    \/ TimerFires
    \/ AbandonedBodySettles
    \/ Backoff
    \/ EmitStepSuccess
    \/ EmitStepFail
    \/ EmitWorkflowSuccess
    \/ Return
    \/ EmitWorkflowFail
    \/ Throw

Spec == Init /\ [][Next]_vars

\* ------------------------------------------------------------------------
\* Runs whose timers fire and whose conditions settle
\* ------------------------------------------------------------------------
\* What the engine does when a promise it awaits has settled: the
\* continuation is a job of the event loop, which runs it
continuation ==
    \/ Run
    \/ CheckCondition
    \/ EmitStepSkip
    \/ EmitStepStart
    \/ Attempt
    \/ EmitStepSuccess
    \/ EmitStepFail
    \/ EmitWorkflowSuccess
    \/ Return
    \/ EmitWorkflowFail
    \/ Throw

\* A timer that was set fires (lines 115, 124) and a condition that was
\* called settles; nothing is assumed of the bodies.
SpecFair ==
    /\ Init
    /\ [][Next]_vars
    /\ WF_vars(continuation)
    /\ WF_vars(ConditionSettles \/ ConditionThrows)
    /\ WF_vars(TimerFires)
    /\ WF_vars(Backoff)

\* ------------------------------------------------------------------------
\* Runs of an engine that has listeners (src/events/EventEmitter.ts)
\* ------------------------------------------------------------------------
ListenerIds == {"l1", "l2"}

\* The value a listener throws, or its promise rejects with
ListenerThrows(oid) ==
    Thrown("Error", oid, NoId, NoId, 0, <<"listener failed">>, 0)

\* One entry of the history for the settlement of a listener invocation
settled(kind, i) ==
    [type |-> kind, listener |-> i.listener, kind |-> i.kind, at |-> i.at,
     k |-> i.k]

\* emit, lines 27-28: the promise of a listener resolves (a listener that
\* returns no promise resolves at once)
ListenerResolves ==
    /\ \E i \in pending :
         /\ pending' = pending \ {i}
         /\ trace' = Append(trace, settled("listener:resolve", i))
    /\ UNCHANGED <<numSteps, step, pc, index, attempt, lastError, error,
                   runError, timers, bodies, nextOid, result, listeners,
                   context, memory>>

\* lines 27-28 without the try of lines 27-31: the failure of the listener
\* is the failure of emit, which run catches
ListenerFailsUncaught ==
    /\ \E i \in pending :
         trace' = Append(trace, settled("listener:reject", i)
                                @@ [oid |-> nextOid])
    /\ pending' = {}
    /\ runError' = ListenerThrows(nextOid)
    /\ nextOid' = nextOid + 1
    /\ pc' = "runCatch"
    /\ UNCHANGED <<numSteps, step, index, attempt, lastError, error, timers,
                   bodies, result, listeners, context, memory>>

\* emit, lines 27-31: a listener throws, or its promise rejects with
\* ListenerThrows(nextOid); the catch block logs the failure with
\* console.error
ListenerFails ==
    /\ \E i \in pending :
         /\ pending' = pending \ {i}
         /\ trace' = trace \o
                <<settled("listener:reject", i) @@ [oid |-> nextOid],
                  [type |-> "console.error", kind |-> i.kind,
                   oid |-> ListenerThrows(nextOid).oid]>>
    /\ nextOid' = nextOid + 1
    /\ UNCHANGED <<numSteps, step, pc, index, attempt, lastError, error,
                   runError, timers, bodies, result, listeners, context,
                   memory>>

\* The listeners registered before run is called: on(type, l) for the
\* listeners of q, in this order, for one event type.
ListenerMaps ==
    { type :> q : type \in EventTypes, q \in {<<"l1">>, <<"l1", "l2">>} }

\* A workflow of one step is run by an engine that has listeners.
InitListeners ==
    /\ numSteps = 1
    /\ step \in Step(StepIds[1])
    /\ Constructed
    /\ Idle
    /\ listeners \in ListenerMaps
    /\ store = <<>>
    /\ initialData = 0

NextListeners ==
    \/ Next
    \/ ListenerResolves
    \/ ListenerFails

SpecListeners == InitListeners /\ [][NextListeners]_vars

\* ------------------------------------------------------------------------
\* Calls of on, off and emit by the host application
\* ------------------------------------------------------------------------
MaxCalls == 4
EmitterKinds == {"step:start", "step:fail"}

\* The members of a Set, kept in the order of insertion
members(q) == { q[i] : i \in 1..Len(q) }

\* an array in place of the Set: push
addAgain(q, l) == Append(q, l)

\* Set.add: a member is not added again
add(q, l) == IF l \in members(q) THEN q ELSE Append(q, l)

\* Set.delete
remove(q, l) == LET other(x) == x # l IN SelectSeq(q, other)

\* The calls of on, off and emit made so far
hostCalls ==
    { p \in 1..Len(trace) :
        trace[p].type \in {"on", "off"} \cup EventTypes }

\* engine.on(type, listener): EventEmitter.on, lines 6-11
On ==
    /\ pc = "host"
    /\ Cardinality(hostCalls) < MaxCalls
    /\ \E type \in EmitterKinds, l \in ListenerIds :
         /\ listeners' =
              IF type \in DOMAIN listeners
                THEN [listeners EXCEPT ![type] = add(@, l)]
                ELSE (type :> add(<<>>, l)) @@ listeners
         /\ trace' = Append(trace, [type |-> "on", kind |-> type,
                                    listener |-> l])
    /\ UNCHANGED <<numSteps, step, pc, index, attempt, lastError, error,
                   runError, timers, bodies, nextOid, result, pending,
                   context, memory>>

\* engine.off(type, listener): EventEmitter.off, lines 13-21
Off ==
    /\ pc = "host"
    /\ Cardinality(hostCalls) < MaxCalls
    /\ \E type \in EmitterKinds, l \in ListenerIds :
         /\ listeners' =
              IF type \in DOMAIN listeners
                THEN IF Len(remove(listeners[type], l)) = 0
                       THEN [t \in DOMAIN listeners \ {type} |->
                                listeners[t]]
                       ELSE [listeners EXCEPT ![type] = remove(@, l)]
                ELSE listeners
         /\ trace' = Append(trace, [type |-> "off", kind |-> type,
                                    listener |-> l])
    /\ UNCHANGED <<numSteps, step, pc, index, attempt, lastError, error,
                   runError, timers, bodies, nextOid, result, pending,
                   context, memory>>

\* eventEmitter.emit(event) for an event of any type, awaited by the host
Emit ==
    /\ pc = "host"
    /\ pending = {}
    /\ Cardinality(hostCalls) < MaxCalls
    /\ \E type \in EmitterKinds :
         emit([type |-> type, workflowName |-> workflowName,
               stepId |-> StepIds[1]])
    /\ UNCHANGED <<numSteps, step, pc, index, attempt, lastError, error,
                   runError, timers, bodies, nextOid, result, listeners,
                   context, memory>>

\* An engine was made; no workflow is run.
InitEmitter ==
    /\ pc = "host"
    /\ numSteps = 1
    /\ step = MkStep(StepIds[1], "none", "unset", 0, "unset")
    /\ Constructed
    /\ Fresh
    /\ listeners = <<>>
    /\ store = <<>>
    /\ initialData = 0

NextEmitter ==
    \/ On
    \/ Off
    \/ Emit
    \/ ListenerResolves
    \/ ListenerFails

SpecEmitter == InitEmitter /\ [][NextEmitter]_vars

\* ------------------------------------------------------------------------
\* Conditions and bodies that use the context they are called with
\* ------------------------------------------------------------------------
\* The user functions that are running, with the context they were given
\* (lines 48, 101, 128): the condition the engine waits for and the bodies
\* that have not settled.  With pc = "host" no workflow is run and the
\* host application itself holds the contexts it made.
holders ==
    (IF pc = "awaitCondition"
       THEN {[context |-> context, stepId |-> step.id]} ELSE {})
    \cup { [context |-> b.context, stepId |-> b.stepId] : b \in bodies }
    \cup (IF pc = "host"
            THEN { [context |-> c, stepId |-> "host"] : c \in DOMAIN contexts }
            ELSE {})

engineVars ==
    <<numSteps, step, pc, index, attempt, lastError, error, runError,
      timers, bodies, nextOid, trace, result, listeners, pending, context,
      args, workflow, scheduler>>

\* context.get(key), lines 10-12
get(c, key) == lookup(store[contexts[c].data], key)

\* context.has(key), lines 21-23
has(c, key) == hasProperty(store[contexts[c].data], key)

\* if (!key || typeof key !== 'string'), line 15
refusesKey(key) == key = ""

\* context.set(key, value) called by h, lines 14-19: an empty key throws
\* and nothing is stored
set(h, key, v) ==
    LET d == contexts[h.context].data
    IN  IF refusesKey(key)
          THEN UNCHANGED <<store, written>>
          ELSE /\ store' = [store EXCEPT ![d] = assigned(@, key, v)]
               /\ written' =
                    [written EXCEPT ![h.context] =
                        (key :> [value |-> v, by |-> h.stepId]) @@ @]

\* A condition or a body calls context.set
Set ==
    /\ \E h \in holders, key \in SetKeys, v \in Values : set(h, key, v)
    /\ UNCHANGED <<engineVars, contexts, initialData, processEnv>>

\* context.delete(key), lines 25-31
Delete ==
    /\ \E h \in holders, key \in Keys :
         LET d == contexts[h.context].data
         IN  IF hasProperty(store[d], key)
               THEN /\ store' = [store EXCEPT ![d] = without(@, key)]
                    /\ written' = [written EXCEPT ![h.context] =
                                      without(@, key)]
               ELSE UNCHANGED <<store, written>>
    /\ UNCHANGED <<engineVars, contexts, initialData, processEnv>>

\* context.clear(), lines 33-35
Clear ==
    /\ \E h \in holders :
         /\ store' = [store EXCEPT ![contexts[h.context].data] = cleared(@)]
         /\ written' = [written EXCEPT ![h.context] = EmptyObject]
    /\ UNCHANGED <<engineVars, contexts, initialData, processEnv>>

\* What run can be given as initialData: nothing, or an object
InitialDatas == {EmptyObject, ("k" :> number(1))}

\* A workflow is run, with or without initialData, by an engine that has
\* no listeners; its conditions and bodies use the context.
InitContext ==
    /\ numSteps \in WorkflowLengths
    /\ step \in Step(StepIds[1])
    /\ Constructed
    /\ Idle
    /\ listeners = <<>>
    /\ \/ store = <<>> /\ initialData = 0
       \/ \E o \in InitialDatas : store = <<o>> /\ initialData = 1

NextContext ==
    \/ Next
    \/ Set
    \/ Delete
    \/ Clear

SpecContext == InitContext /\ [][NextContext]_vars

\* ------------------------------------------------------------------------
\* Contexts made and cloned by the host application
\* ------------------------------------------------------------------------
MaxContexts == 3
ProcessEnvs == {ProcessEnv, ("PATH" :> "/usr/bin")}

\* What the holder of a value sees of it: of a reference, the object
deref(v) ==
    IF v.type = "object" THEN [type |-> "object", value |-> store[v.ref]]
    ELSE v

\* What a context is expected to hold that was made of the object o
heldBy(o, by) ==
    [key \in DOMAIN o |-> [value |-> deref(o[key]), by |-> by]]

\* new WorkflowContext(initialData), lines 5-8
New ==
    /\ pc = "host"
    /\ contexts = <<>>
    /\ WorkflowContext(initialData, 0)
    /\ written' = Append(written, heldBy(spread(initialData), "initialData"))
    /\ UNCHANGED <<engineVars, initialData, processEnv>>

\* context.clone(), lines 37-39
Clone ==
    /\ pc = "host"
    /\ Len(contexts) < MaxContexts
    /\ \E c \in DOMAIN contexts :
         /\ WorkflowContext(contexts[c].data, contexts[c].env)
         /\ written' = Append(written,
                              heldBy(store[contexts[c].data], "clone"))
         /\ trace' = Append(trace, [type |-> "clone", of |-> c,
                                    clone |-> Len(contexts) + 1])
    /\ UNCHANGED <<numSteps, step, pc, index, attempt, lastError, error,
                   runError, timers, bodies, nextOid, result, listeners,
                   pending, context, initialData, processEnv, args,
                   workflow, scheduler>>

\* context.get(key).n = v: the holder of a context changes an object that
\* is stored in it
Mutate ==
    /\ \E h \in holders, key \in Keys, v \in Values :
         /\ get(h.context, key).type = "object"
         /\ LET ref == get(h.context, key).ref
                o == ("n" :> v) @@ store[ref]
            IN  /\ store' = [store EXCEPT ![ref] = o]
                /\ written' =
                     IF key \in DOMAIN written[h.context]
                       THEN [written EXCEPT ![h.context][key].value =
                               [type |-> "object", value |-> o]]
                       ELSE written
    /\ UNCHANGED <<engineVars, contexts, initialData, processEnv>>

\* process.env.PATH = ...
SetEnv ==
    /\ pc = "host"
    /\ processEnv' \in ProcessEnvs \ {processEnv}
    /\ UNCHANGED <<engineVars, store, contexts, initialData, written>>

\* What the host passes to the constructor: an object that holds a number
\* or an object
CloneDatas == {("k" :> number(1)), ("k" :> reference(1))}

InitClone ==
    /\ pc = "host"
    /\ numSteps = 1
    /\ step = MkStep(StepIds[1], "none", "unset", 0, "unset")
    /\ Constructed
    /\ Fresh
    /\ listeners = <<>>
    /\ \E o \in CloneDatas : store = <<("n" :> number(1)), o>>
    /\ initialData = 2

NextClone ==
    \/ New
    \/ Clone
    \/ Set
    \/ Delete
    \/ Clear
    \/ Mutate
    \/ SetEnv

SpecClone == InitClone /\ [][NextClone]_vars

\* ------------------------------------------------------------------------
\* Calls of set by the host, with any key
\* ------------------------------------------------------------------------
MaxSets == 3

\* The keys and values the host calls set with, and the keys it reads
HostKeys == {"", "k", "a", PrototypeKey}
HostValues == {number(1), reference(1)}
ReadKeys == {"k", "a", "toString", PrototypeKey}

sets == { p \in 1..Len(trace) : trace[p].type = "set" }

\* try { context.set(key, value) } catch: the history keeps the call and
\* whether it threw
CallSet ==
    /\ pc = "host"
    /\ Cardinality(sets) < MaxSets
    /\ \E h \in holders, key \in HostKeys, v \in HostValues :
         /\ set(h, key, v)
         /\ trace' = Append(trace, [type |-> "set", context |-> h.context,
                                    key |-> key, value |-> v,
                                    threw |-> refusesKey(key)])
    /\ UNCHANGED <<numSteps, step, pc, index, attempt, lastError, error,
                   runError, timers, bodies, nextOid, result, listeners,
                   pending, context, contexts, initialData, processEnv,
                   args, workflow, scheduler>>

\* The host holds the object { a: 2 } and makes a context, of nothing or
\* of { k: 1 }.
InitSet ==
    /\ pc = "host"
    /\ numSteps = 1
    /\ step = MkStep(StepIds[1], "none", "unset", 0, "unset")
    /\ Constructed
    /\ Fresh
    /\ listeners = <<>>
    /\ \/ store = <<("a" :> number(2))>> /\ initialData = 0
       \/ store = <<("a" :> number(2)), ("k" :> number(1))>>
            /\ initialData = 2

NextSet ==
    \/ New
    \/ CallSet
    \/ Delete
    \/ Clear

SpecSet == InitSet /\ [][NextSet]_vars

\* ------------------------------------------------------------------------
\* Several calls of run, one after the other
\* ------------------------------------------------------------------------
MaxRuns == 2

\* The promise of run has settled and the host calls run again, with the
\* same workflow, of one step, and the same initialData.  The locals of
\* the call are new and the history starts again; the bodies that the
\* settled run abandoned are still running, with the context they were
\* given.
NextCall ==
    /\ pc = "done"
    /\ numSteps = 1
    /\ Len(contexts) < MaxRuns
    /\ pc' = "idle"
    /\ index' = 1
    /\ attempt' = 0
    /\ lastError' = undefined
    /\ error' = undefined
    /\ runError' = undefined
    /\ nextOid' = 1
    /\ trace' = <<>>
    /\ result' = [state |-> "pending"]
    /\ UNCHANGED <<numSteps, step, timers, bodies, listeners, pending,
                   context, memory>>

\* A workflow of one step, which has no retry, is run several times.
InitRuns ==
    /\ numSteps = 1
    /\ step \in { s \in Step(StepIds[1]) : "retry" \notin DOMAIN s }
    /\ Constructed
    /\ Idle
    /\ listeners = <<>>
    /\ \/ store = <<>> /\ initialData = 0
       \/ \E o \in InitialDatas : store = <<o>> /\ initialData = 1

\* The conditions and bodies of these runs use the context and do not
\* throw: a run fails when a timer fires, or ends well.
NextRuns ==
    \/ Run
    \/ CheckCondition
    \/ ConditionSettles
    \/ EmitStepSkip
    \/ EmitStepStart
    \/ Attempt
    \/ BodyResolves
    \/ TimerFires
    \/ AbandonedBodySettles
    \/ EmitStepSuccess
    \/ EmitStepFail
    \/ EmitWorkflowSuccess
    \/ Return
    \/ EmitWorkflowFail
    \/ Throw
    \/ Set
    \/ Delete
    \/ Clear
    \/ NextCall

SpecRuns == InitRuns /\ [][NextRuns]_vars

\* ------------------------------------------------------------------------
\* A workflow is constructed of arbitrary arguments, then run
\* ------------------------------------------------------------------------
Names == {"", workflowName}

\* The lists of steps the constructor is given: the first n steps, and the
\* same with one id empty, one id that of another step, or one step
\* without a run function
StepLists ==
    UNION { {stepsOf(n)}
            \cup { [stepsOf(n) EXCEPT ![i].id = ""] : i \in 1..n }
            \cup { [stepsOf(n) EXCEPT ![i].id = StepIds[j]] :
                     i \in 1..n, j \in 1..n }
            \cup { [stepsOf(n) EXCEPT ![i].run = "none"] : i \in 1..n }
          : n \in 0..MaxSteps }

NoWorkflow == [made |-> FALSE]

\* defineWorkflow({name, steps}): new Workflow(name, steps), which throws
\* or makes the workflow that run is then given
Construct ==
    /\ pc = "new"
    /\ workflow' = Workflow(args.name, args.steps)
    /\ IF isWorkflow(workflow')
         THEN /\ pc' = "idle"
              /\ numSteps' = Len(workflow'.steps)
              /\ step' \in Step(workflow'.steps[1].id)
         ELSE /\ pc' = "threw"
              /\ UNCHANGED <<numSteps, step>>
    /\ UNCHANGED <<index, attempt, lastError, error, runError, timers,
                   bodies, nextOid, trace, result, listeners, pending,
                   context, store, contexts, initialData, processEnv,
                   written, args, scheduler>>

InitConstruct ==
    /\ pc = "new"
    /\ args \in [name : Names, steps : StepLists]
    /\ workflow = NoWorkflow
    /\ numSteps = 0
    /\ step = [id |-> NoId, run |-> "fn"]
    /\ Fresh
    /\ listeners = <<>>
    /\ store = <<>>
    /\ initialData = 0

NextConstruct ==
    \/ Construct
    \/ Next

SpecConstruct == InitConstruct /\ [][NextConstruct]_vars

\* ------------------------------------------------------------------------
\* StepBuilder (src/core/Step.ts) and the array given to new Workflow
\* ------------------------------------------------------------------------
MaxBuilds == 2

\* The objects of the host: the object this.step of the builder that
\* createStep("s1") made (line 33, 39), a step written as a literal, and
\* the array of steps
builder == 1
literal == 2
array == 3

RetryArgs == (0 - 1)..MaxRetry
TimeoutArgs == {0, TimeoutMs}

\* o.key = value
assign(o, key, value) == (key :> value) @@ o

builds == { p \in 1..Len(trace) : trace[p].type = "build" }

hostVars ==
    <<numSteps, step, pc, index, attempt, lastError, error, runError,
      timers, bodies, nextOid, result, listeners, pending, context,
      contexts, initialData, processEnv, written, scheduler>>

\* builder.run(fn), lines 42-45
BuilderRun ==
    /\ pc = "host"
    /\ store' = [store EXCEPT ![builder] = assign(@, "run", "fn")]
    /\ UNCHANGED <<hostVars, trace, args, workflow>>

\* builder.condition(fn), lines 47-50
BuilderCondition ==
    /\ pc = "host"
    /\ store' = [store EXCEPT ![builder] = assign(@, "condition", "fn")]
    /\ UNCHANGED <<hostVars, trace, args, workflow>>

\* builder.retry(count), lines 52-58: a negative count throws
BuilderRetry ==
    /\ pc = "host"
    /\ \E count \in RetryArgs :
         store' = IF count < 0 THEN store
                  ELSE [store EXCEPT ![builder] = assign(@, "retry", count)]
    /\ UNCHANGED <<hostVars, trace, args, workflow>>

\* builder.timeout(ms), lines 60-66: a timeout that is not positive throws
BuilderTimeout ==
    /\ pc = "host"
    /\ \E ms \in TimeoutArgs :
         store' = IF ms <= 0 THEN store
                  ELSE [store EXCEPT ![builder] = assign(@, "timeout", ms)]
    /\ UNCHANGED <<hostVars, trace, args, workflow>>

\* builder.build(), lines 68-74: throws without a run function, returns
\* this.step otherwise; the history keeps what the step was then
Build ==
    /\ pc = "host"
    /\ Cardinality(builds) < MaxBuilds
    /\ IF "run" \in DOMAIN store[builder]
         THEN trace' = Append(trace, [type |-> "build",
                                     step |-> reference(builder),
                                     value |-> store[builder]])
         ELSE UNCHANGED trace
    /\ UNCHANGED <<hostVars, store, args, workflow>>

\* The steps an array of references holds
elements(a) == [i \in DOMAIN a |-> store[a[i].ref]]

\* steps.push(s) by the host, for a step that build returned or the
\* literal
Push ==
    /\ pc = "host"
    /\ Len(store[array]) < MaxSteps
    /\ \E s \in {trace[p].step : p \in builds} \cup {reference(literal)} :
         /\ \A i \in DOMAIN store[array] : store[array][i] # s
         /\ store' = [store EXCEPT ![array] = Append(@, s)]
    /\ UNCHANGED <<hostVars, trace, args, workflow>>

\* steps.pop() by the host
Pop ==
    /\ pc = "host"
    /\ Len(store[array]) > 0
    /\ store' = [store EXCEPT ![array] = SubSeq(@, 1, Len(@) - 1)]
    /\ UNCHANGED <<hostVars, trace, args, workflow>>

\* new Workflow(name, steps) with the array of the host, part_005 lines
\* 7-35: this.steps is the array that was passed (line 34); the history
\* keeps what it held then
NewWorkflow ==
    /\ pc = "host"
    /\ workflow = NoWorkflow
    /\ args' = [name |-> workflowName, steps |-> reference(array)]
    /\ LET w == Workflow(workflowName, elements(store[array]))
       IN  IF isWorkflow(w)
             THEN /\ workflow' = [w EXCEPT !.steps = reference(array)]
                  /\ trace' = Append(trace, [type |-> "new Workflow",
                                             steps |-> store[array]])
             ELSE /\ workflow' = w
                  /\ UNCHANGED trace
    /\ UNCHANGED <<hostVars, store>>

\* The host has called createStep("s1") and holds a step literal and an
\* empty array.
InitBuilder ==
    /\ pc = "host"
    /\ numSteps = 0
    /\ step = [id |-> NoId, run |-> "fn"]
    /\ args = [name |-> workflowName, steps |-> reference(array)]
    /\ workflow = NoWorkflow
    /\ Fresh
    /\ listeners = <<>>
    /\ store = <<[id |-> StepIds[1]], [id |-> StepIds[2], run |-> "fn"], <<>>>>
    /\ initialData = 0

NextBuilder ==
    \/ BuilderRun
    \/ BuilderCondition
    \/ BuilderRetry
    \/ BuilderTimeout
    \/ Build
    \/ Push
    \/ Pop
    \/ NewWorkflow

SpecBuilder == InitBuilder /\ [][NextBuilder]_vars

\* ------------------------------------------------------------------------
\* A step that is retried several times
\* ------------------------------------------------------------------------
MaxBackoffRetry == 3

\* A workflow of one step, which has retry: MaxBackoffRetry, is run.
InitBackoff ==
    /\ numSteps = 1
    /\ step \in { MkStep(StepIds[1], c, "n", MaxBackoffRetry, t) :
                     c \in ConditionOpts, t \in TimeoutOpts }
    /\ Constructed
    /\ Idle
    /\ listeners = <<>>
    /\ store = <<>>
    /\ initialData = 0

SpecBackoff == InitBackoff /\ [][Next]_vars

\* ------------------------------------------------------------------------
\* Calls of run on one engine while an earlier call has not settled
\* ------------------------------------------------------------------------
MaxConcurrent == 2

\* The locals of the call of run that is executing
locals ==
    [run |-> current, step |-> step, pc |-> pc, index |-> index,
     attempt |-> attempt, lastError |-> lastError, error |-> error,
     runError |-> runError, result |-> result, context |-> context]

\* The history tells which call of run goes on from here
switch(r) ==
    LET entry == [type |-> "switch", run |-> r]
    IN  IF trace # <<>> /\ trace[Len(trace)].type = "switch"
          THEN [trace EXCEPT ![Len(trace)] = entry]
          ELSE Append(trace, entry)

\* The call of run that is executing waits for a condition or a body of
\* the user (lines 48, 101, 128)
waitsForUser == pc \in {"awaitCondition", "awaitRun"}

\* engine.run(workflow) is called again, with the same workflow of one
\* step, while the earlier call waits for a user function: run has no
\* state of the engine to test, the new call gets locals of its own
\* (lines 16-17) and the earlier call goes on when its await is over
CallRun ==
    /\ waitsForUser
    /\ numSteps = 1
    /\ Len(suspended) + 1 < MaxConcurrent
    /\ suspended' = Append(suspended, locals)
    /\ current' = Len(suspended) + 2
    /\ trace' = switch(Len(suspended) + 2)
    /\ pc' = "idle"
    /\ index' = 1
    /\ attempt' = 0
    /\ lastError' = undefined
    /\ error' = undefined
    /\ runError' = undefined
    /\ result' = [state |-> "pending"]
    /\ context' = 0
    /\ UNCHANGED <<numSteps, step, timers, bodies, nextOid, listeners,
                   pending, store, contexts, initialData, processEnv,
                   written, args, workflow>>

\* The continuation of another call of run is the next job of the event
\* loop, while this call waits for a user function or has settled
Resume ==
    /\ waitsForUser \/ pc = "done"
    /\ \E k \in DOMAIN suspended :
         LET r == suspended[k]
         IN  /\ r.pc # "done"
             /\ suspended' = [suspended EXCEPT ![k] = locals]
             /\ current' = r.run
             /\ trace' = switch(r.run)
             /\ step' = r.step
             /\ pc' = r.pc
             /\ index' = r.index
             /\ attempt' = r.attempt
             /\ lastError' = r.lastError
             /\ error' = r.error
             /\ runError' = r.runError
             /\ result' = r.result
             /\ context' = r.context
    /\ UNCHANGED <<numSteps, timers, bodies, nextOid, listeners, pending,
                   store, contexts, initialData, processEnv, written, args,
                   workflow>>

\* A workflow of one step without retry is run by an engine that has no
\* listeners.
InitConcurrent ==
    /\ numSteps = 1
    /\ step \in { s \in Step(StepIds[1]) : "retry" \notin DOMAIN s }
    /\ Constructed
    /\ Idle
    /\ listeners = <<>>
    /\ store = <<>>
    /\ initialData = 0

NextConcurrent ==
    \/ Run
    \/ CheckCondition
    \/ ConditionSettles
    \/ ConditionThrows
    \/ EmitStepSkip
    \/ EmitStepStart
    \/ Attempt
    \/ BodyResolves
    \/ BodyRejects
    \/ TimerFires
    \/ AbandonedBodySettles
    \/ EmitStepSuccess
    \/ EmitStepFail
    \/ EmitWorkflowSuccess
    \/ Return
    \/ EmitWorkflowFail
    \/ Throw
    \/ CallRun
    \/ Resume

SpecConcurrent == InitConcurrent /\ [][NextConcurrent]_vars

\* ------------------------------------------------------------------------
\* Reading the history
\* ------------------------------------------------------------------------
isEvent(x) == x.type \in EventTypes

\* The events emitted so far, in order
Events == SelectSeq(trace, isEvent)

\* The position of a step id in the workflow
pos(id) == CHOOSE i \in DOMAIN StepIds : StepIds[i] = id

\* The positions of the history whose entry has type ty and is of step i
At(ty, i) ==
    { p \in 1..Len(trace) :
        /\ trace[p].type = ty
        /\ trace[p].stepId = StepIds[i] }

\* The body of step i was called / settled while the engine waited for it
Calls(i) == At("call:run", i)
Live(ty, i) == { p \in At(ty, i) : "abandoned" \notin DOMAIN trace[p] }

\* The condition of step i resolved to false
condFalse(i) == \E p \in At("resolve:condition", i) : ~trace[p].value

\* The events of step i, in order
eventsOf(i) ==
    LET mine(x) == /\ x.type \in StepEventTypes
                   /\ x.stepId = StepIds[i]
    IN  SelectSeq(trace, mine)

wfEvent(ty) == [type |-> ty, workflowName |-> workflowName]
stepEvent(ty, i) == [type |-> ty, workflowName |-> workflowName,
                     stepId |-> StepIds[i]]

\* The retry count a step is configured with, 0 when none
retryCount(s) == IF "retry" \in DOMAIN s THEN s.retry ELSE 0

\* ------------------------------------------------------------------------
\* C1  A run in which no step fails emits exactly workflow:start, then for
\*     each step in declaration order either step:skip alone or step:start
\*     followed by step:success, then workflow:success, and nothing else.
\* ------------------------------------------------------------------------
RECURSIVE expectedSteps(_)
expectedSteps(n) ==
    IF n = 0 THEN <<>>
    ELSE expectedSteps(n - 1) \o
         (IF condFalse(n) THEN <<stepEvent("step:skip", n)>>
          ELSE <<stepEvent("step:start", n), stepEvent("step:success", n)>>)

C1_SuccessfulRunEvents ==
    result.state = "resolved" =>
        Events = <<wfEvent("workflow:start")>> \o expectedSteps(numSteps)
                 \o <<wfEvent("workflow:success")>>

\* a run of two steps resolved: the first step was skipped, the second ran
\* and succeeded after a failed attempt
C1_Witness ==
    /\ result.state = "resolved"
    /\ numSteps = 2
    /\ condFalse(1)
    /\ Live("reject:run", 2) # {}
    /\ Live("resolve:run", 2) # {}

\* ------------------------------------------------------------------------
\* C2  Step bodies and conditions are invoked strictly in declaration
\*     order and never overlap: nothing of step i+1 is invoked before the
\*     lifecycle of step i has settled as succeeded or skipped.
\* ------------------------------------------------------------------------
isCall(x) == x.type \in {"call:run", "call:condition"}

C2_SequentialSteps ==
    /\ Cardinality(bodies) <= 1
    /\ \A p \in 1..Len(trace) :
         isCall(trace[p]) =>
           /\ \A i \in 1..(pos(trace[p].stepId) - 1) :
                \E q \in 1..(p - 1) :
                   \/ trace[q] = stepEvent("step:success", i)
                   \/ trace[q] = stepEvent("step:skip", i)
           /\ \A q \in 1..(p - 1) :
                isCall(trace[q]) => pos(trace[q].stepId) <= pos(trace[p].stepId)

\* the condition and the body of the second step were called after the
\* body of the first one ran
C2_Witness ==
    /\ numSteps = 2
    /\ Calls(1) # {}
    /\ At("call:condition", 2) # {}
    /\ Calls(2) # {}

\* ------------------------------------------------------------------------
\* C3  A step whose condition resolves to false never has its body
\*     invoked, emits step:skip and no other event, is no failure, and the
\*     run goes on with the step after it.
\* ------------------------------------------------------------------------
C3_SkippedStep ==
    \A i \in 1..numSteps :
      condFalse(i) =>
        /\ Calls(i) = {}
        /\ \/ eventsOf(i) = <<>> /\ pc = "stepSkip" /\ index = i
           \/ /\ eventsOf(i) = <<stepEvent("step:skip", i)>>
              /\ index > i
              /\ LET p == CHOOSE p \in At("step:skip", i) : TRUE
                 IN  IF p = Len(trace)
                       THEN /\ index = i + 1
                            /\ pc \in IF i < numSteps
                                       THEN {"executeStep", "stepStart"}
                                       ELSE {"workflowSuccess"}
                       ELSE IF i < numSteps
                              THEN /\ trace[p + 1].type \in
                                        {"call:condition", "step:start"}
                                   /\ trace[p + 1].stepId =
                                        StepIds[i + 1]
                              ELSE trace[p + 1] = wfEvent("workflow:success")

\* the first step was skipped and the body of the second one is running
C3_Witness ==
    /\ numSteps = 2
    /\ condFalse(1)
    /\ pc = "awaitRun"
    /\ index = 2

\* ------------------------------------------------------------------------
\* C4  A step with retry count k >= 0 and no timeout whose body fails with
\*     errors that are no TimeoutError: when the body fails f <= k times
\*     and then succeeds it is invoked exactly f+1 times and the step
\*     succeeds; when it always fails it is invoked exactly k+1 times and
\*     the step fails.  With k = 0 the body is invoked once.
\* ------------------------------------------------------------------------
noTimeout(s) == "timeout" \notin DOMAIN s \/ s.timeout = 0

threwTimeout(i) ==
    /\ index = i
    /\ pc \in {"stepCatch", "runCatch", "throw", "done"}
    /\ Live("reject:run", i) # {}
    /\ error.cls = "TimeoutError"

failing(i) ==
    /\ index = i
    /\ \/ pc \in {"stepCatch", "runCatch", "throw"}
       \/ pc = "done" /\ result.state = "rejected"

succeeding(i) ==
    \/ index = i /\ pc = "stepSuccess"
    \/ eventsOf(i) = <<stepEvent("step:start", i), stepEvent("step:success", i)>>

C4_RetryAttempts ==
    /\ \A i \in 1..numSteps :
         Live("resolve:run", i) # {} =>
           /\ Cardinality(Calls(i)) = Cardinality(Live("reject:run", i)) + 1
           /\ succeeding(i)
    /\ (index <= numSteps /\ noTimeout(step) /\ retryCount(step) >= 0
          /\ ~threwTimeout(index)) =>
         LET k == retryCount(step)
             calls == Cardinality(Calls(index))
             f == Cardinality(Live("reject:run", index))
         IN  /\ calls <= k + 1
             /\ f <= calls
             /\ Live("resolve:run", index) # {} => f <= k
             /\ (failing(index) /\ At("reject:condition", index) = {}) =>
                  calls = k + 1 /\ f = k + 1
             /\ f = k + 1 => failing(index)

\* the first step failed once and then succeeded; the second one, with
\* retry 1 and no timeout, failed twice and the run was rejected
C4_Witness ==
    /\ Cardinality(Calls(1)) = 2
    /\ succeeding(1)
    /\ index = 2
    /\ retryCount(step) = 1
    /\ noTimeout(step)
    /\ ~threwTimeout(2)
    /\ Cardinality(Calls(2)) = 2
    /\ result.state = "rejected"

\* ------------------------------------------------------------------------
\* C5  When the timer of an attempt fires before the body settles, the
\*     step fails with a TimeoutError that carries the step id, the
\*     workflow name and the configured timeout, and the body is not
\*     invoked again, whatever the retry count.
\* ------------------------------------------------------------------------
isTimeoutOf(e, i) ==
    /\ e.cls = "TimeoutError"
    /\ e.stepId = StepIds[i]
    /\ e.workflowName = workflowName
    /\ index = i
    /\ e.timeout = step.timeout

C5_TimeoutNotRetried ==
    \A p \in 1..Len(trace) :
      trace[p].type = "timer:fire" =>
        LET i == pos(trace[p].stepId)
        IN  /\ \A q \in (p + 1)..Len(trace) : trace[q].type # "call:run"
            /\ failing(i)
            /\ isTimeoutOf(error, i)
            /\ pc \in {"runCatch", "throw"} => isTimeoutOf(runError, i)
            /\ pc = "done" => isTimeoutOf(result.error, i)
            /\ \A q \in At("step:fail", i) : isTimeoutOf(trace[q].error, i)

\* the timer of the first attempt of a step with retry 1 fired and the run
\* was rejected
C5_Witness ==
    /\ \E p \in 1..Len(trace) :
         /\ trace[p].type = "timer:fire"
         /\ trace[p].attempt = 0
         /\ index = pos(trace[p].stepId)
         /\ retryCount(step) = 1
    /\ result.state = "rejected"

\* ------------------------------------------------------------------------
\* C6  When the body of an attempt with a timeout resolves before the timer
\*     fires, the attempt succeeds, its timer is cancelled and no
\*     TimeoutError is raised for it; every attempt settles at most once,
\*     by the body or by the timer.
\* ------------------------------------------------------------------------
settlements(i, n) ==
    { p \in Live("resolve:run", i) \cup Live("reject:run", i)
            \cup At("timer:fire", i) : trace[p].attempt = n }

C6_BodyWinsRace ==
    \A i \in 1..numSteps :
      /\ \A p \in Live("resolve:run", i) :
           /\ \A q \in At("timer:fire", i) :
                 trace[q].attempt # trace[p].attempt
           /\ \A t \in timers :
                 ~(t.stepId = trace[p].stepId
                     /\ t.attempt = trace[p].attempt)
           /\ succeeding(i)
           /\ ~failing(i)
      /\ \A p \in Calls(i) :
           Cardinality(settlements(i, trace[p].attempt)) <= 1

\* the body of the last step, which has a timeout, resolved in its second
\* attempt and step:success was emitted
C6_Witness ==
    /\ index = numSteps + 1
    /\ ~noTimeout(step)
    /\ \E p \in Live("resolve:run", numSteps) : trace[p].attempt = 1
    /\ At("step:success", numSteps) # {}

\* ------------------------------------------------------------------------
\* C7  When a step fails, step:fail of that step is immediately followed
\*     by workflow:fail, nothing of a later step is invoked or emitted, and
\*     the run rejects.
\* ------------------------------------------------------------------------
C7_EarlyTermination ==
    LET E == Events
        n == Len(E)
        failEvent(x, i) == x.type = "step:fail" /\ x.stepId = StepIds[i]
    IN  /\ \A q \in 1..n :
             E[q].type = "step:fail" =>
               /\ q >= n - 1
               /\ q = n - 1 => E[n].type = "workflow:fail"
               /\ q = n => pc = "runCatch"
               /\ \A p \in 1..Len(trace) :
                     "stepId" \in DOMAIN trace[p] =>
                        pos(trace[p].stepId) <= pos(E[q].stepId)
               /\ pc = "done" => result.state = "rejected"
        /\ pc = "stepCatch" =>
             \A p \in 1..Len(trace) :
                "stepId" \in DOMAIN trace[p] => pos(trace[p].stepId) <= index
        /\ pc = "runCatch" => n >= 1 /\ failEvent(E[n], index)
        /\ (pc = "throw" \/ result.state = "rejected") =>
             /\ n >= 2
             /\ failEvent(E[n - 1], index)
             /\ E[n].type = "workflow:fail"

\* the first of two steps failed and the run was rejected
C7_Witness ==
    /\ numSteps = 2
    /\ At("step:fail", 1) # {}
    /\ result.state = "rejected"

\* ------------------------------------------------------------------------
\* The failure of a step
\* ------------------------------------------------------------------------
\* The positions where the lifecycle of step i caught a failure: a
\* condition or body that rejected, or a timer that fired.  The error
\* variable of executeStep holds the value of the last one.
failures(i) ==
    At("reject:condition", i) \cup Live("reject:run", i) \cup At("timer:fire", i)

\* The last one of them is the failure the step ends with
isLast(p, i) == \A q \in failures(i) : q <= p

thrownByUser(p) == trace[p].type \in {"reject:condition", "reject:run"}

\* ------------------------------------------------------------------------
\* C8  run resolves or fails with a StepExecutionError or a TimeoutError:
\*     a failure of a step that is neither is wrapped in a
\*     StepExecutionError, one that is either is thrown again unchanged.
\* ------------------------------------------------------------------------
documentedTypes == {"StepExecutionError", "TimeoutError"}

C8_OnlyTypedErrors ==
    result.state = "rejected" =>
      /\ result.error.cls \in documentedTypes
      /\ \A p \in failures(index) :
           (isLast(p, index) /\ thrownByUser(p)) =>
              /\ error.oid = trace[p].oid
              /\ IF error.cls \in documentedTypes
                   THEN result.error = error
                   ELSE /\ result.error.cls = "StepExecutionError"
                        /\ result.error.oid # error.oid

\* ------------------------------------------------------------------------
\* C9  (as claimed) Whenever run fails, the error it rejects with carries
\*     the id of the step whose step:fail event was emitted and the name of
\*     the workflow.
\* ------------------------------------------------------------------------
carriesContext(e) ==
    /\ e.stepId = StepIds[index]
    /\ e.workflowName = workflowName
    /\ At("step:fail", index) # {}

C9_ErrorCarriesContext ==
    result.state = "rejected" => carriesContext(result.error)

\* ------------------------------------------------------------------------
\* C9  (amended) Whenever run fails with an error that the engine made (the
\*     StepError that wraps a failure, or the TimeoutError of a timer that
\*     fired), the error carries the id of the step whose step:fail event
\*     was emitted and the name of the workflow; a StepError or
\*     TimeoutError that a condition or a body threw is propagated as it
\*     is, with the ids it was made with.
\* ------------------------------------------------------------------------
madeByUser(e) ==
    \E p \in failures(index) :
       /\ isLast(p, index)
       /\ thrownByUser(p)
       /\ error.oid = trace[p].oid
       /\ error.cls \in {"StepError", "TimeoutError"}
       /\ e = error

C9_EngineErrorCarriesContext ==
    result.state = "rejected" =>
      /\ madeByUser(result.error) \/ carriesContext(result.error)
      /\ \A p \in failures(index) :
           (isLast(p, index) /\ thrownByUser(p)
              /\ error.cls \in {"StepError", "TimeoutError"}) =>
             result.error = error /\ error.oid = trace[p].oid

\* a run rejected with the StepError that wraps the Error a body threw
C9_Witness ==
    /\ result.state = "rejected"
    /\ result.error.cls = "StepError"
    /\ result.error.cause # 0
    /\ ~madeByUser(result.error)
    /\ Live("reject:run", index) # {}

\* ------------------------------------------------------------------------
\* C10 The error of the workflow:fail event is the error run rejects with,
\*     and workflow:fail is emitted before run rejects.
\* ------------------------------------------------------------------------
C10_WorkflowFailError ==
    LET E == Events
    IN  /\ pc = "throw" =>
             /\ E # <<>>
             /\ E[Len(E)].type = "workflow:fail"
             /\ E[Len(E)].error = runError
        /\ result.state = "rejected" =>
             /\ E # <<>>
             /\ E[Len(E)].type = "workflow:fail"
             /\ E[Len(E)].error = result.error
        /\ result.state = "pending" =>
             \A q \in 1..Len(E) :
                E[q].type = "workflow:fail" => pc = "throw"

\* a run rejected after a body threw a value that is no Error
C10_Witness ==
    /\ result.state = "rejected"
    /\ \E p \in Live("reject:run", index) :
         isLast(p, index) /\ error.oid = trace[p].oid
    /\ error.cls = "string"

\* ------------------------------------------------------------------------
\* Reading the history of listeners
\* ------------------------------------------------------------------------
ListenerEntryTypes ==
    {"listener:call", "listener:resolve", "listener:reject", "console.error"}

\* The history without the entries of listeners
lifecycle(h) ==
    LET notListener(x) == x.type \notin ListenerEntryTypes
    IN  SelectSeq(h, notListener)

\* The positions of the calls of listeners, and of the failures
ListenerCalls == { p \in 1..Len(trace) : trace[p].type = "listener:call" }
ListenerFailures ==
    { p \in 1..Len(trace) : trace[p].type = "listener:reject" }

\* The entry at s settles the listener invocation of the entry at c
settles(s, c) ==
    /\ trace[s].type \in {"listener:resolve", "listener:reject"}
    /\ trace[s].listener = trace[c].listener
    /\ trace[s].at = trace[c].at
    /\ trace[s].k = trace[c].k

\* ------------------------------------------------------------------------
\* C11  A listener that throws or rejects never changes the run: the
\*      failure is caught inside emit (logged, thrown nowhere), every
\*      listener registered for the event is invoked whatever the others
\*      do, the step in which a listener fails changes nothing of the run
\*      but the wait for that listener (as a listener that succeeds), and
\*      no event or settlement of run carries the listener's error.
\* ------------------------------------------------------------------------
allInvoked ==
    \A p \in 1..Len(trace) :
        isEvent(trace[p]) =>
            LET q == registered(trace[p].type)
            IN  \A k \in 1..Len(q) :
                    /\ p + k <= Len(trace)
                    /\ trace[p + k].type = "listener:call"
                    /\ trace[p + k].listener = q[k]
                    /\ trace[p + k].at = p

failureCaught ==
    \A f \in ListenerFailures :
        /\ f < Len(trace)
        /\ trace[f + 1].type = "console.error"
        /\ trace[f + 1].oid = trace[f].oid
        /\ \A x \in {error, runError, lastError} : x.oid # trace[f].oid
        /\ result.state = "rejected" => result.error.oid # trace[f].oid
        /\ \A p \in 1..Len(trace) :
               (isEvent(trace[p]) /\ "error" \in DOMAIN trace[p]) =>
                   /\ trace[p].error.oid # trace[f].oid
                   /\ trace[p].error.cause # trace[f].oid

listenerFailed ==
    \E f \in 1..Len(trace') :
        f > Len(trace) /\ trace'[f].type = "listener:reject"

sameAsResolved ==
    /\ <<numSteps, step, pc, index, attempt, lastError, error, runError>>'
         = <<numSteps, step, pc, index, attempt, lastError, error, runError>>
    /\ <<timers, bodies, result, listeners, context, memory>>'
         = <<timers, bodies, result, listeners, context, memory>>
    /\ lifecycle(trace') = lifecycle(trace)
    /\ \E i \in pending : pending' = pending \ {i}

C11_ListenerFailureIsolated ==
    /\ [](allInvoked /\ failureCaught)
    /\ [][listenerFailed => sameAsResolved]_vars

C11_Witness ==
    /\ result.state = "resolved"
    /\ \E f \in ListenerFailures :
         \E c \in ListenerCalls :
             /\ trace[c].at = trace[f].at
             /\ trace[c].listener # trace[f].listener

\* ------------------------------------------------------------------------
\* C12  Each emission is awaited fully: every listener called for an event
\*      has settled before the engine emits the next event, calls a
\*      condition or a body, or settles run; in particular the listeners
\*      of step:start have settled before the body is called.
\* ------------------------------------------------------------------------
hasSettled(c, p) == \E s \in (c + 1)..(p - 1) : settles(s, c)

isLifecycleAction(x) ==
    x.type \in EventTypes \cup {"call:condition", "call:run"}

proceeds ==
    \/ CheckCondition
    \/ EmitStepSkip
    \/ EmitStepStart
    \/ Attempt
    \/ EmitStepSuccess
    \/ EmitStepFail
    \/ EmitWorkflowSuccess
    \/ Return
    \/ EmitWorkflowFail
    \/ Throw

C13_ListenersDontBlock == pending # {} => ENABLED proceeds

\* ------------------------------------------------------------------------
\* Reading the contexts
\* ------------------------------------------------------------------------
\* What get(key) returns of a mapping in which w was stored: the value
\* stored for key, the absent value for a key that was not set
stored(w, key) == IF key \in DOMAIN w THEN w[key].value ELSE absent

\* ------------------------------------------------------------------------
\* C14  Within one run all steps share one context: every condition and
\*      body is given the context of the run, get(k) returns in it the
\*      value that the latest set(k, v) of any step stored (or that
\*      initialData held) unless k was deleted or cleared since, and
\*      get of a key that was never set returns the absent value.
\* ------------------------------------------------------------------------
C14_SharedContext ==
    \A h \in holders :
        /\ h.context = context
        /\ \A key \in Keys :
               get(h.context, key) = stored(written[context], key)

\* The same for the keys that no object inherits
C14_SharedOwnKeys ==
    \A h \in holders :
        /\ h.context = context
        /\ \A key \in Keys \ DOMAIN ObjectPrototype :
               get(h.context, key) = stored(written[context], key)

\* ------------------------------------------------------------------------
\* C15  Every run gets a fresh context built from a copy of initialData:
\*      the data of a context is an object of its own, it holds what
\*      initialData held when the run began and what was then written
\*      through this very context, whatever was written through the
\*      contexts of other runs (that ended or whose bodies still run),
\*      and no step changes the mapping initialData of the caller.
\* ------------------------------------------------------------------------
content(w) == [key \in DOMAIN w |-> w[key].value]

ownData ==
    \A c \in DOMAIN contexts :
        /\ contexts[c].data # initialData
        /\ \A d \in DOMAIN contexts : d # c =>
               contexts[d].data # contexts[c].data
        /\ store[contexts[c].data] = content(written[c])
        /\ \A key \in Keys \ DOMAIN ObjectPrototype :
               get(c, key) = stored(written[c], key)

freshFromInitialData ==
    Len(contexts') > Len(contexts) =>
        store'[contexts'[Len(contexts')].data] = spread(initialData)

initialDataKept ==
    initialData # 0 => store'[initialData] = store[initialData]

C15_FreshContextPerRun ==
    /\ []ownData
    /\ [][freshFromInitialData /\ initialDataKept]_vars

C15_Witness ==
    /\ Len(contexts) = 2
    /\ initialData # 0
    /\ "k" \in DOMAIN written[1]
    /\ written[1]["k"] = [value |-> number(2), by |-> "s1"]
    /\ \E h \in holders : h.context = 2 /\ get(h.context, "k") = number(1)
    /\ \E h \in holders : h.context = 1

\* ------------------------------------------------------------------------
\* C16  Constructing a workflow fails at once, before any step is run or
\*      event emitted, when the name is empty, the list of steps is empty
\*      or two steps have the same id; so every workflow that run is
\*      given has a name, at least one step and steps of distinct ids.
\* ------------------------------------------------------------------------
distinctIds(steps) ==
    \A i, j \in 1..Len(steps) : i # j => steps[i].id # steps[j].id

refused(a) == a.name = "" \/ Len(a.steps) = 0 \/ ~distinctIds(a.steps)

C16_ConstructionValidates ==
    /\ (pc # "new" /\ refused(args)) =>
           /\ pc = "threw"
           /\ ~isWorkflow(workflow)
           /\ trace = <<>> /\ bodies = {} /\ context = 0
           /\ result.state = "pending"
    /\ pc \notin {"new", "threw"} =>
           /\ isWorkflow(workflow)
           /\ workflow.name # ""
           /\ Len(workflow.steps) >= 1
           /\ distinctIds(workflow.steps)
           /\ numSteps = Len(workflow.steps)
    /\ (trace # <<>> \/ bodies # {}) => pc \notin {"new", "threw"}

C16_Witness ==
    /\ pc = "threw"
    /\ args.name # ""
    /\ Len(args.steps) = 2
    /\ args.steps[1].id = args.steps[2].id
    /\ workflow = threw("Duplicate step id")

\* ------------------------------------------------------------------------
\* C17  Every step:success event carries a duration, a number that is not
\*      negative, besides workflowName and stepId.
\* ------------------------------------------------------------------------
C17_SuccessHasDuration ==
    \A p \in 1..Len(trace) :
        trace[p].type = "step:success" =>
            /\ "duration" \in DOMAIN trace[p]
            /\ trace[p].duration >= 0

\* ------------------------------------------------------------------------
\* C18  After a failed attempt that is not the last one and is no timeout
\*      the engine waits min(1000ms * 2^attemptIndex, 30000ms) before the
\*      next attempt, attemptIndex being 0 for the wait after the first
\*      attempt.
\* ------------------------------------------------------------------------
min(a, b) == IF a <= b THEN a ELSE b

exponentialBackoff(attemptIndex) == min(1000 * 2 ^ attemptIndex, 30000)

C18_ExponentialBackoff ==
    \A p \in 1..Len(trace) :
        trace[p].type = "setTimeout" =>
            trace[p].ms = exponentialBackoff(trace[p].attempt)

\* ------------------------------------------------------------------------
\* C19  Registration has set semantics per event kind: an emission calls
\*      a listener once if on was called with it for the kind of the
\*      event and off was not called with it for that kind since, however
\*      often on was called, and does not call it otherwise.
\* ------------------------------------------------------------------------
isCallOf(x, op, kind, l) ==
    x.type = op /\ x.kind = kind /\ x.listener = l

isRegistered(kind, l, p) ==
    \E i \in 1..(p - 1) :
        /\ isCallOf(trace[i], "on", kind, l)
        /\ \A j \in (i + 1)..(p - 1) : ~isCallOf(trace[j], "off", kind, l)

callsOf(l, p) ==
    { c \in ListenerCalls : trace[c].at = p /\ trace[c].listener = l }

C19_SetSemantics ==
    \A p \in 1..Len(trace) :
        isEvent(trace[p]) =>
            \A l \in ListenerIds :
                /\ Cardinality(callsOf(l, p)) =
                       (IF isRegistered(trace[p].type, l, p) THEN 1 ELSE 0)
                /\ \A c \in callsOf(l, p) : trace[c].kind = trace[p].type

C19_Witness ==
    /\ Len(trace) = 5
    /\ isCallOf(trace[1], "on", "step:start", "l1")
    /\ isCallOf(trace[2], "on", "step:start", "l1")
    /\ isCallOf(trace[3], "on", "step:fail", "l2")
    /\ trace[4].type = "step:start"
    /\ isCallOf(trace[5], "listener:call", "step:start", "l1")
    /\ pending # {}

\* ------------------------------------------------------------------------
\* C20  clone returns a new context whose data and env equal those of the
\*      original at the moment of cloning, and the two share no mutable
\*      storage: what get and has return on a context is what it held
\*      when it was made and what was since set, deleted, cleared or
\*      changed in a stored value through this very context, whatever was
\*      done through the others.
\* ------------------------------------------------------------------------
isClone(x) == x.type = "clone"

cloned == Len(trace') = Len(trace) + 1 /\ isClone(trace'[Len(trace')])

equalAtCloning ==
    LET e == trace'[Len(trace')]
    IN  /\ store'[contexts'[e.clone].data] = store[contexts[e.of].data]
        /\ store'[contexts'[e.clone].env] = store[contexts[e.of].env]

newAtCloning ==
    LET e == trace'[Len(trace')]
    IN  /\ contexts'[e.clone].data # contexts[e.of].data
        /\ contexts'[e.clone].env # contexts[e.of].env

independent ==
    \A c \in DOMAIN contexts :
        \A key \in Keys :
            /\ deref(get(c, key)) = lookup(content(written[c]), key)
            /\ has(c, key) = hasProperty(content(written[c]), key)

C20_CloneIndependent ==
    /\ []independent
    /\ [][cloned => equalAtCloning /\ newAtCloning]_vars

\* ------------------------------------------------------------------------
\* C21  An engine runs one workflow at a time: when run is called while an
\*      earlier call on the same engine has not settled, the lifecycle
\*      events and the body calls of the two calls do not interleave:
\*      nothing of one call lies between two entries of the other.
\* ------------------------------------------------------------------------
\* The call of run that made the entry at position p of the history
owner(p) ==
    LET before == { q \in 1..(p - 1) : trace[q].type = "switch" }
    IN  IF before = {} THEN 1
        ELSE trace[CHOOSE q \in before : \A o \in before : o <= q].run

\* Lifecycle events and calls of step bodies
ofRun ==
    { p \in 1..Len(trace) : isEvent(trace[p]) \/ trace[p].type = "call:run" }

C21_OneRunAtATime ==
    \A p \in ofRun, q \in ofRun, r \in ofRun :
        (p < q /\ q < r /\ owner(p) = owner(r)) => owner(q) = owner(p)

\* ------------------------------------------------------------------------
\* C22  Timeouts prevent hanging: when every step of the workflow has a
\*      timeout (a positive number of milliseconds), conditions settle and
\*      timers fire, the run settles, whatever the bodies do, having
\*      emitted exactly one of workflow:success and workflow:fail.
\* ------------------------------------------------------------------------
timeoutConfigured(s) == "timeout" \in DOMAIN s /\ s.timeout > 0

terminals ==
    { p \in 1..Len(trace) :
        trace[p].type \in {"workflow:success", "workflow:fail"} }

settledOnce == result.state # "pending" /\ Cardinality(terminals) = 1

C22_TimeoutsPreventHanging ==
    ([]timeoutConfigured(step)) => <>settledOnce

\* the run has failed and the body of its step has not settled
C22_Witness ==
    /\ settledOnce
    /\ numSteps = 1
    /\ timeoutConfigured(step)
    /\ \E b \in bodies : b.stepId = step.id
    /\ result.state = "rejected"
    /\ result.error.cls = "TimeoutError"

\* ------------------------------------------------------------------------
\* C23  For every step that is run (it has no condition, or its condition
\*      resolved to true), step:start is emitted exactly once, before the
\*      first attempt of the body and not again for a retry, and exactly
\*      one of step:success and step:fail is emitted, after the last
\*      attempt.
\* ------------------------------------------------------------------------
\* The condition check of step i let the step run
passed(i) ==
    \/ At("call:condition", i) = {}
    \/ \E p \in At("resolve:condition", i) : trace[p].value

\* The lifecycle of step i has ended
over(i) ==
    \/ i < index
    \/ i = index /\ pc \in {"runCatch", "throw", "done"}

ends(i) == At("step:success", i) \cup At("step:fail", i)

exhausted ==
    /\ index <= numSteps
    /\ retryCount(step) >= 0
    /\ At("timer:fire", index) = {}
    /\ Cardinality(Live("reject:run", index)) = retryCount(step) + 1

lastRejection ==
    CHOOSE p \in Live("reject:run", index) :
        \A q \in Live("reject:run", index) : q <= p

\* e is the value v or the wrapper the engine makes of it
reports(e, v) ==
    \/ e = v
    \/ /\ e.cls \in {"Error", "StepError", "StepExecutionError"}
       /\ e.oid # v.oid
       /\ e.message = String(v)
       /\ e.cause = (IF isError(v) /\ e.cls # "Error" THEN v.oid ELSE 0)

C24_LastErrorReported ==
    exhausted =>
        /\ error.oid = trace[lastRejection].oid
        /\ \A q \in Live("reject:run", index) :
              q # lastRejection => trace[q].oid # error.oid
        /\ \A f \in At("step:fail", index) :
              /\ reports(trace[f].error, error)
              /\ isError(error) => trace[f].error = error
        /\ result.state = "rejected" =>
              /\ reports(result.error, error)
              /\ isError(error) =>
                    result.error = error \/ result.error.cause = error.oid

\* run rejected after the body of a step with retry 1 failed twice
C24_Witness ==
    /\ exhausted
    /\ retryCount(step) = 1
    /\ result.state = "rejected"
    /\ At("step:fail", index) # {}

\* ------------------------------------------------------------------------
\* C25  Once the timer of an attempt has fired, the settlement of the
\*      abandoned body is ignored: it emits no event, starts no attempt
\*      and leaves the error of the step and of the run what the timer
\*      made it, the TimeoutError.
\* ------------------------------------------------------------------------
isAbandoned(x) == "abandoned" \in DOMAIN x

abandonedSettles ==
    /\ Len(trace') = Len(trace) + 1
    /\ isAbandoned(trace'[Len(trace')])

settlementIgnored ==
    /\ SubSeq(trace', 1, Len(trace)) = trace
    /\ <<step, pc, index, attempt, lastError, error, runError, result,
         nextOid, pending>>' =
       <<step, pc, index, attempt, lastError, error, runError, result,
         nextOid, pending>>

timeoutStands ==
    \A i \in 1..numSteps :
        \A p \in At("timer:fire", i) :
            /\ error.oid = trace[p].oid
            /\ \A q \in Calls(i) \cup At("setTimeout", i) : q < p
            /\ \A f \in At("step:fail", i) : trace[f].error.oid = trace[p].oid
            /\ result.state # "resolved"
            /\ result.state = "rejected" => result.error.oid = trace[p].oid

C25_AbandonedBodyIgnored ==
    /\ []timeoutStands
    /\ [][abandonedSettles => settlementIgnored]_vars

\* the run failed with the TimeoutError and the body settled afterwards
C25_Witness ==
    /\ result.state = "rejected"
    /\ result.error.cls = "TimeoutError"
    /\ At("timer:fire", index) # {}
    /\ isAbandoned(trace[Len(trace)])

\* ------------------------------------------------------------------------
\* C26  The context of a run is written only by the step that is being
\*      executed: its data change only while the engine waits for the
\*      condition or the body of the current step, and it is that
\*      function which writes; never a body whose attempt has settled
\*      (abandoned after its timer fired), never after run has settled.
\* ------------------------------------------------------------------------
dataOf(c) == store[contexts[c].data]

contextWritten ==
    /\ context # 0
    /\ context' = context
    /\ dataOf(context)' # dataOf(context)

\* The functions of the current step that the engine waits for
executing ==
    (IF pc = "awaitCondition"
       THEN {[context |-> context, stepId |-> step.id]} ELSE {})
    \cup { [context |-> b.context, stepId |-> b.stepId] :
             b \in { x \in bodies : awaited(x) } }

C26_OnlyCurrentStepWrites ==
    [][contextWritten => executing # {}]_vars

\* ------------------------------------------------------------------------
\* C27  A step is immutable once built and a workflow is read-only once
\*      constructed: the step build returned keeps the fields it had when
\*      it was returned, whatever is called on the builder afterwards, and
\*      the steps of a workflow stay the sequence they were at
\*      construction, whatever the caller does to the array it passed.
\* ------------------------------------------------------------------------
builtStepsKept ==
    \A p \in builds : store[trace[p].step.ref] = trace[p].value

workflowStepsKept ==
    \A p \in 1..Len(trace) :
        trace[p].type = "new Workflow" =>
            store[workflow.steps.ref] = trace[p].steps

C27_ImmutableOnceBuilt == builtStepsKept /\ workflowStepsKept

\* ------------------------------------------------------------------------
\* C28  A backoff wait happens only between a failed attempt that did not
\*      time out and the next attempt of the same step: none follows a
\*      successful attempt, a timed-out attempt or the last permitted
\*      attempt, a step that makes a attempts waits a-1 times, and the
\*      delays of one step never decrease.
\* ------------------------------------------------------------------------
waits(i) == At("setTimeout", i)

betweenAttempts(i, w) ==
    /\ w > 1
    /\ trace[w - 1].type = "reject:run"
    /\ trace[w - 1].stepId = StepIds[i]
    /\ trace[w - 1].attempt = trace[w].attempt
    /\ ~isAbandoned(trace[w - 1])
    /\ trace[w].attempt < retryCount(step)
    /\ w < Len(trace) =>
          /\ trace[w + 1].type = "call:run"
          /\ trace[w + 1].stepId = StepIds[i]
          /\ trace[w + 1].attempt = trace[w].attempt + 1

C28_BackoffBetweenAttempts ==
    /\ pc = "backoff" =>
          /\ ~isTimeoutError(lastError)
          /\ trace[Len(trace)].type = "setTimeout"
    /\ \A i \in 1..numSteps :
          /\ i = index => \A w \in waits(i) : betweenAttempts(i, w)
          /\ Cardinality(waits(i)) <= Cardinality(Calls(i))
          /\ (over(i) /\ Calls(i) # {}) =>
                Cardinality(waits(i)) = Cardinality(Calls(i)) - 1
          /\ Calls(i) = {} => waits(i) = {}
          /\ \A v \in waits(i), w \in waits(i) :
                v < w => trace[v].ms <= trace[w].ms

\* a step failed twice, waited twice and succeeded in its third attempt
C28_Witness ==
    /\ over(1)
    /\ Cardinality(Calls(1)) = 3
    /\ Cardinality(waits(1)) = 2
    /\ At("step:success", 1) # {}

\* ------------------------------------------------------------------------
\* C29  set with an empty key fails with a validation error and leaves
\*      the data of the context unchanged; set with a key that is not
\*      empty does not fail, makes get of that key return the value and
\*      leaves what get and has return for every other key unchanged.
\* ------------------------------------------------------------------------
setCalled ==
    /\ Len(trace') = Len(trace) + 1
    /\ trace'[Len(trace')].type = "set"

\* The call was set(k, v) on the context c
isSet(e, c, k, v) == e.context = c /\ e.key = k /\ e.value = v

setContract ==
    \A c \in DOMAIN contexts, k \in HostKeys, v \in HostValues :
        isSet(trace'[Len(trace')], c, k, v) =>
            IF k = ""
              THEN /\ trace'[Len(trace')].threw
                   /\ dataOf(c)' = dataOf(c)
              ELSE /\ ~trace'[Len(trace')].threw
                   /\ get(c, k)' = v
                   /\ \A key \in ReadKeys \ {k} :
                         /\ get(c, key)' = get(c, key)
                         /\ has(c, key)' = has(c, key)

C29_SetChangesOneKey == [][setCalled => setContract]_vars

\* ------------------------------------------------------------------------
\* C30  Every run emits workflow:start first and exactly one terminal
\*      event, workflow:success or workflow:fail, last: no event follows
\*      the terminal event, run resolves if and only if workflow:success
\*      was emitted and rejects if and only if workflow:fail was emitted.
\* ------------------------------------------------------------------------
emitted(ty) == \E p \in 1..Len(trace) : trace[p].type = ty

C30_StartFirstTerminalLast ==
    LET E == Events
    IN  /\ E # <<>> => E[1].type = "workflow:start"
        /\ \A q \in 2..Len(E) : E[q].type # "workflow:start"
        /\ \A q \in 1..Len(E) :
              E[q].type \in {"workflow:success", "workflow:fail"} =>
                  q = Len(E)
        /\ result.state = "resolved" => emitted("workflow:success")
        /\ result.state = "rejected" => emitted("workflow:fail")
        /\ emitted("workflow:success") =>
              /\ result.state # "rejected"
              /\ pc \in {"return", "done"}
              /\ pc = "done" => result.state = "resolved"
        /\ emitted("workflow:fail") =>
              /\ result.state # "resolved"
              /\ pc \in {"throw", "done"}
              /\ pc = "done" => result.state = "rejected"

\* run resolved although a listener of workflow:success failed
C30_Witness ==
    /\ result.state = "resolved"
    /\ \E p \in ListenerFailures : trace[p].kind = "workflow:success"

\* ------------------------------------------------------------------------
\* C31  Every step:fail event of a step is preceded, in the same run, by
\*      a step:start event of the same step, also when the failure comes
\*      from the condition of the step and not from its body.
\* ------------------------------------------------------------------------
C31_FailAfterStart ==
    \A i \in 1..numSteps :
        \A f \in At("step:fail", i) :
            \E b \in At("step:start", i) : b < f

\* ------------------------------------------------------------------------
\* C32  For every step of a workflow the Workflow constructor accepts,
\*      whatever its retry and timeout fields hold: once step:start has
\*      been emitted, the body of the step is called at least once before
\*      step:success or step:fail is emitted.
\* ------------------------------------------------------------------------
C32_BodyCalledAfterStart ==
    \A i \in 1..numSteps :
        \A b \in At("step:start", i) :
            \A e \in ends(i) :
                b < e => \E p \in Calls(i) : b < p /\ p < e

\* ------------------------------------------------------------------------
\* C33  The condition of a step is evaluated exactly once in a run,
\*      before step:start and before the first attempt of the body, and
\*      not again between two attempts; a step without a condition is
\*      never checked and never skipped: it is started as a step whose
\*      condition resolved to true is.
\* ------------------------------------------------------------------------
evaluations(i) == At("call:condition", i)

\* Line 48 was executed for the step the engine is at
checked ==
    /\ index <= numSteps
    /\ pc \notin {"idle", "executeStep"}

\* Everything else the history has of step i
restOf(i) ==
    { p \in 1..Len(trace) :
        /\ "stepId" \in DOMAIN trace[p]
        /\ trace[p].stepId = StepIds[i]
        /\ trace[p].type # "call:condition" }

\* The retry loop of the step the engine is at has made its first test
\* and that test let an attempt in
loopEntered ==
    /\ checked
    /\ pc # "stepStart"
    /\ ~(pc = "attempt" /\ attempt = 0)
    /\ maxRetries(step) >= 0

C33_ConditionEvaluatedOnce ==
    /\ \A i \in 1..numSteps :
          /\ Cardinality(evaluations(i)) <= 1
          /\ \A c \in evaluations(i) : \A p \in restOf(i) : c < p
          /\ i > index => evaluations(i) = {}
    /\ (checked /\ "condition" \in DOMAIN step) =>
          Cardinality(evaluations(index)) = 1
    /\ (checked /\ "condition" \notin DOMAIN step) =>
          /\ evaluations(index) = {}
          /\ At("step:skip", index) = {}
          /\ pc # "stepStart" => Cardinality(At("step:start", index)) = 1
          /\ loopEntered => Calls(index) # {}

\* the body of a step with a condition is called again after a failed
\* attempt and the condition was called once
C33_Witness ==
    /\ checked
    /\ "condition" \in DOMAIN step
    /\ Cardinality(evaluations(index)) = 1
    /\ Cardinality(Calls(index)) > 1
    /\ pc = "awaitRun"

====
